---- MODULE Spec2Model ----
(***************************************************************************)
(* A model of the badge service of src/app.py: the two request handlers    *)
(* last_test (/last.svg) and app_deployed (/appdeployed), the redis store  *)
(* they share, and the upstream status checks they call.                   *)
(*                                                                         *)
(* Python values are tagged with their type, so that None, the string      *)
(* 'None', the int 1 and the string '1' stay different values.             *)
(***************************************************************************)
EXTENDS Integers, Sequences, FiniteSets, TLC

VARIABLES env, store, now, req

vars == <<env, store, now, req>>

-----------------------------------------------------------------------------
(* Bounds of the model *)

\* number of requests the model serves
NumReqs == 2
\* the clock runs from 0 to MaxTime seconds
MaxTime == 1

-----------------------------------------------------------------------------
(* Python values *)

None == [type |-> "NoneType", val |-> "None"]
PyStr(s) == [type |-> "str", val |-> s]
PyInt(n) == [type |-> "int", val |-> n]
PyBytes(s) == [type |-> "bytes", val |-> s]
IsNone(x) == x.type = "NoneType"

\* Python's ==, which is False between values of different types
PyEq(a, b) == a.type = b.type /\ a.val = b.val

\* '{}'.format(x) and f'{x}': the text of a str, 'None' for None
Format(x) == x.val

\* (mutant) str(result) in place of result.decode('ascii')
Decode_Repr(b) == PyStr("b'" \o b.val \o "'")

\* bytes.decode('ascii') of a value read from the store
Decode(b) == PyStr(b.val)

-----------------------------------------------------------------------------
(* Module constants of app.py *)

CACHE_TIMEOUT_DEFAULT == 900
\* (mutant) a status without a badge file is taken for a good result
BADGES_ENUM_Loose == {"succeeded", "failed", "errored", "pending"}
BADGES_ENUM == {"succeeded", "failed", "errored"}
FILES_ENUM == BADGES_ENUM \cup {"error"}

-----------------------------------------------------------------------------
(* CACHE_TIMEOUT: a string is the sequence of its characters.  SUP2 is the   *)
(* character U+00B2, a digit to str.isdigit() that int() does not accept.   *)

AsciiDigits == <<"0", "1", "2", "3", "4", "5", "6", "7", "8", "9">>
SUP2 == "SUPERSCRIPT TWO"

DigitOf(c) == CHOOSE d \in 0..9 : AsciiDigits[d + 1] = c
IsAsciiDigit(c) == \E d \in 0..9 : AsciiDigits[d + 1] = c

\* str(n) for n >= 0
RECURSIVE str(_)
str(n) == IF n < 10 THEN <<AsciiDigits[n + 1]>>
          ELSE str(n \div 10) \o <<AsciiDigits[(n % 10) + 1]>>

\* s.isdigit(): at least one character, and every character a digit
isdigit(s) == /\ Len(s) > 0
              /\ \A k \in 1..Len(s) : IsAsciiDigit(s[k]) \/ s[k] = SUP2

\* int(s) of a string that passed isdigit(): the number, or ValueError
RECURSIVE DecimalValue(_)
DecimalValue(s) == IF Len(s) = 0 THEN 0
                   ELSE 10 * DecimalValue(SubSeq(s, 1, Len(s) - 1)) + DigitOf(s[Len(s)])
int(s) == IF \A k \in 1..Len(s) : IsAsciiDigit(s[k])
          THEN [ok |-> TRUE, val |-> DecimalValue(s)]
          ELSE [ok |-> FALSE, val |-> 0]

\* the values of CACHE_TIMEOUT the model runs with: unset, '01', '0', 'abc',
\* and the one-character string U+00B2
CacheTimeouts == {None, PyStr(<<"0", "1">>), PyStr(<<"0">>),
                  PyStr(<<"a", "b", "c">>), PyStr(<<SUP2>>)}

-----------------------------------------------------------------------------
(* The environment, the requests and the upstream *)

\* the environments the process can be started in: the full configuration
\* with each value of CACHE_TIMEOUT, and each mandatory variable missing
FullEnv(c) == [HEROKU_AUTH_TOKEN |-> PyStr("token"), PIPELINE_ID |-> PyStr("pipeline"),
               REDIS_URL |-> PyStr("redis://cache"), CACHE_TIMEOUT |-> c]
Environments ==
    {FullEnv(c) : c \in CacheTimeouts}
    \cup {[FullEnv(PyStr(<<SUP2>>)) EXCEPT ![n] = None] :
             n \in {"HEROKU_AUTH_TOKEN", "PIPELINE_ID", "REDIS_URL"}}

\* (mutant) os.getenv(name, '') where os.getenv(name) is meant
getenv_EmptyDefault(name, default) == IF IsNone(env[name]) THEN PyStr("") ELSE env[name]

\* os.getenv(name) and os.getenv(name, default)
getenv(name, default) == IF IsNone(env[name]) THEN default ELSE env[name]

\* the query strings of the /appdeployed requests the model serves; an absent
\* parameter is None, a given one the str that request.args holds
Query(app, style, svg, root) == [app |-> app, style |-> style, svg |-> svg, root |-> root]
AppQueries == {Query(None, None, None, None),
               Query(None, PyStr("flat"), PyStr("1"), None),
               Query(PyStr("web"), None, None, None),
               Query(PyStr("web"), PyStr("flat"), PyStr("1"), PyStr("health")),
               Query(PyStr("build_result"), None, PyStr("1"), None)}

\* request.args.get(name, default)
args_get(q, name, default) == IF IsNone(q[name]) THEN default ELSE q[name]

\* what get_last_test_run_status() can return: None, a status of BADGES_ENUM,
\* or another status of the provider
LastRunResults == {None, PyStr("succeeded"), PyStr("failed"), PyStr("pending")}

\* what check_if_app_is_deployed(url) can return: a token, a deploy token
\* that has a badge or another one
DeployResults == {PyStr("heroku-succeeded"), PyStr("heroku-failed"), PyStr("unexpected")}

Reqs == 1..NumReqs

IdleReq == [pc |-> "idle", route |-> "none",
            app_name |-> None, style |-> PyStr(""), svg |-> PyInt(0),
            root |-> PyStr(""), file_extension |-> "png",
            key |-> "", result |-> None, url |-> "",
            badge |-> None, file |-> "", exc |-> "",
            gets |-> 0, fetches |-> 0, sets |-> 0,
            got |-> "none", fetched |-> None, ttl |-> -1]

Done(r) == r.pc \in {"done", "crashed"}

-----------------------------------------------------------------------------
(* The redis store: key -> [val, exp, at], exp the time the entry expires   *)
(* at (NoExpiry for an entry set without EX), at the time of the SET that   *)
(* wrote it (history, never read by the handlers)                           *)

NoExpiry == -1

Live(e, t) == e.exp = NoExpiry \/ t < e.exp

\* (mutant) the get reads another key than the one the set writes
redis_get_OtherKey(key, t) == IF "build" \in DOMAIN store /\ Live(store["build"], t)
                              THEN store["build"].val ELSE None

\* r.get(key) at time t: the stored bytes, or None
redis_get(key, t) == IF key \in DOMAIN store /\ Live(store[key], t)
                     THEN store[key].val ELSE None

\* (mutant) a SET that replaces the whole store by the one entry
Put_DropOthers(key, val, exp) ==
    [k \in {key} |-> [val |-> val, exp |-> exp, at |-> now]]

\* the store after a SET of key to val, to expire at exp
Put(key, val, exp) ==
    [k \in DOMAIN store \cup {key} |->
        IF k = key THEN [val |-> val, exp |-> exp, at |-> now] ELSE store[k]]

\* r.set(key, value, ex=ex) of a str value at the time now: the outcomes the
\* redis client can have.
\*  - the server cannot be reached: ConnectionError
\*  - ex is 0: the server refuses EX 0 with a ResponseError (redis-py 3 sends
\*    it), or the entry is stored without expiry (redis-py 2 drops a falsy ex)
\*  - otherwise the entry is stored, to expire ex seconds from now
SetOutcomes(value, ex) ==
    LET raised(e) == [exc |-> e, val |-> None, exp |-> NoExpiry]
        stored(x) == [exc |-> "", val |-> PyBytes(Format(value)), exp |-> x]
    IN  {raised("ConnectionError")}
        \cup (IF ex = 0 THEN {raised("ResponseError"), stored(NoExpiry)}
              ELSE {stored(now + ex)})

-----------------------------------------------------------------------------
(* Sending a badge ends the request *)

\* send_badge_file(badge): the assertion, then the file '<badge>.svg'
send_badge_file(r, badge) ==
    IF Format(badge) \in FILES_ENUM /\ badge.type = "str"
    THEN [r EXCEPT !.pc = "done", !.badge = badge, !.file = Format(badge) \o ".svg"]
    ELSE [r EXCEPT !.pc = "crashed", !.exc = "AssertionError"]

\* send_heroku_badge(badge_name, style, file_extension)
send_heroku_badge(r, badge_name, style, file_extension) ==
    [r EXCEPT !.pc = "done", !.badge = badge_name,
              !.file = Format(badge_name) \o Format(style) \o "." \o file_extension]

\* an exception nothing catches leaves the handler
raise(r, e) == [r EXCEPT !.pc = "crashed", !.exc = e]

\* cache_timeout as lines 88-96 and 149-157 compute it: the seconds, or the
\* ValueError of int()
cache_timeout ==
    LET raw == getenv("CACHE_TIMEOUT", PyStr(str(CACHE_TIMEOUT_DEFAULT))).val
    IN  IF isdigit(raw) THEN int(raw)
        ELSE [ok |-> TRUE, val |-> CACHE_TIMEOUT_DEFAULT]

-----------------------------------------------------------------------------
(* /last.svg *)

\* lines 44-61: the request arrives and the mandatory variables are checked
LastTestStart(i) ==
    /\ req[i].pc = "idle"
    /\ \A j \in Reqs : j < i => req[j].pc # "idle"
    /\ LET r == [req[i] EXCEPT !.route = "last", !.key = "build_result"]
       IN  req' = [req EXCEPT ![i] =
                IF IsNone(getenv("HEROKU_AUTH_TOKEN", None)) THEN send_badge_file(r, PyStr("error"))
                ELSE IF IsNone(getenv("PIPELINE_ID", None)) THEN send_badge_file(r, PyStr("error"))
                ELSE IF IsNone(getenv("REDIS_URL", None)) THEN send_badge_file(r, PyStr("error"))
                ELSE [r EXCEPT !.pc = "get"]]
    /\ UNCHANGED <<env, store, now>>

\* (mutant) a broken cache falls back to the upstream instead of failing fast
LastTestGet_FallbackFetch(i) ==
    /\ req[i].pc = "get" /\ req[i].route = "last"
    /\ \E reachable \in BOOLEAN :
         LET r == [req[i] EXCEPT !.gets = @ + 1]
             result == redis_get("build_result", now)
         IN  req' = [req EXCEPT ![i] =
                IF ~reachable
                THEN [r EXCEPT !.got = "ConnectionError", !.pc = "fetch"]
                ELSE IF ~IsNone(result)
                THEN send_badge_file([r EXCEPT !.got = "hit", !.result = result], Decode(result))
                ELSE [r EXCEPT !.got = "miss", !.pc = "fetch"]]
    /\ UNCHANGED <<env, store, now>>

\* lines 63-72: r.get('build_result')
LastTestGet(i) ==
    /\ req[i].pc = "get" /\ req[i].route = "last"
    /\ \E reachable \in BOOLEAN :
         LET r == [req[i] EXCEPT !.gets = @ + 1]
             result == redis_get("build_result", now)
         IN  req' = [req EXCEPT ![i] =
                IF ~reachable
                THEN send_badge_file([r EXCEPT !.got = "ConnectionError"], PyStr("error"))
                ELSE IF ~IsNone(result)
                THEN send_badge_file([r EXCEPT !.got = "hit", !.result = result], Decode(result))
                ELSE [r EXCEPT !.got = "miss", !.pc = "fetch"]]
    /\ UNCHANGED <<env, store, now>>

\* (mutant) lines 81-84 left out: the result is not checked against BADGES_ENUM
LastTestFetch_NoEnumCheck(i) ==
    /\ req[i].pc = "fetch" /\ req[i].route = "last"
    /\ \E result \in LastRunResults :
         LET r == [req[i] EXCEPT !.fetches = @ + 1, !.fetched = result, !.result = result]
         IN  req' = [req EXCEPT ![i] =
                IF IsNone(result) THEN send_badge_file(r, PyStr("error"))
                ELSE [r EXCEPT !.pc = "set"]]
    /\ UNCHANGED <<env, store, now>>

\* lines 75-86: get_last_test_run_status() and the checks of its result
LastTestFetch(i) ==
    /\ req[i].pc = "fetch" /\ req[i].route = "last"
    /\ \E result \in LastRunResults :
         LET r == [req[i] EXCEPT !.fetches = @ + 1, !.fetched = result, !.result = result]
         IN  req' = [req EXCEPT ![i] =
                IF IsNone(result) THEN send_badge_file(r, PyStr("error"))
                ELSE IF Format(result) \notin BADGES_ENUM THEN send_badge_file(r, PyStr("error"))
                ELSE [r EXCEPT !.pc = "set"]]
    /\ UNCHANGED <<env, store, now>>

\* lines 88-100: the timeout, r.set('build_result', result, ex=cache_timeout)
\* and the badge
LastTestSet(i) ==
    /\ req[i].pc = "set" /\ req[i].route = "last"
    /\ IF ~cache_timeout.ok
       THEN /\ req' = [req EXCEPT ![i] = raise(req[i], "ValueError")]
            /\ store' = store
       ELSE \E o \in SetOutcomes(req[i].result, cache_timeout.val) :
              LET r == [req[i] EXCEPT !.sets = @ + 1, !.ttl = cache_timeout.val]
              IN  IF o.exc # ""
                  THEN /\ req' = [req EXCEPT ![i] = raise(r, o.exc)]
                       /\ store' = store
                  ELSE /\ req' = [req EXCEPT ![i] = send_badge_file(r, r.result)]
                       /\ store' = Put("build_result", o.val, o.exp)
    /\ UNCHANGED <<env, now>>

-----------------------------------------------------------------------------
(* /appdeployed *)

\* lines 106-128: the request arrives, its parameters are read and the
\* mandatory inputs are checked
AppDeployedStart(i) ==
    /\ req[i].pc = "idle"
    /\ \A j \in Reqs : j < i => req[j].pc # "idle"
    /\ \E q \in AppQueries :
         LET app_name == args_get(q, "app", None)
             style0 == args_get(q, "style", PyStr(""))
             svg == args_get(q, "svg", PyInt(0))
             root == args_get(q, "root", PyStr(""))
             file_extension == IF PyEq(svg, PyInt(1)) THEN "svg" ELSE "png"
             style == IF PyEq(style0, PyStr("flat")) THEN PyStr("-" \o Format(style0)) ELSE style0
             r == [req[i] EXCEPT !.route = "app", !.app_name = app_name, !.style = style,
                                 !.svg = svg, !.root = root,
                                 !.file_extension = file_extension,
                                 !.key = Format(app_name) \o "_deployed"]
         IN  req' = [req EXCEPT ![i] =
                IF IsNone(app_name)
                THEN send_heroku_badge(r, PyStr("heroku-failed"), style, file_extension)
                ELSE IF IsNone(getenv("REDIS_URL", None))
                THEN send_heroku_badge(r, PyStr("heroku-failed"), style, file_extension)
                ELSE [r EXCEPT !.pc = "get"]]
    /\ UNCHANGED <<env, store, now>>

\* (mutant) a hit is followed by an upstream fetch and a rewrite of the entry
AppDeployedGet_RefreshOnHit(i) ==
    /\ req[i].pc = "get" /\ req[i].route = "app"
    /\ \E reachable \in BOOLEAN :
         LET r == [req[i] EXCEPT !.gets = @ + 1]
             result == redis_get(Format(r.app_name) \o "_deployed", now)
         IN  req' = [req EXCEPT ![i] =
                IF ~reachable
                THEN send_heroku_badge([r EXCEPT !.got = "ConnectionError"],
                                       PyStr("heroku-failed"), r.style, r.file_extension)
                ELSE IF ~IsNone(result)
                THEN [r EXCEPT !.got = "hit", !.result = result, !.pc = "fetch"]
                ELSE [r EXCEPT !.got = "miss", !.pc = "fetch"]]
    /\ UNCHANGED <<env, store, now>>

\* (mutant) the get reads a key that depends on the root as well
AppDeployedGet_KeyWithRoot(i) ==
    /\ req[i].pc = "get" /\ req[i].route = "app"
    /\ \E reachable \in BOOLEAN :
         LET r == [req[i] EXCEPT !.gets = @ + 1]
             result == redis_get(Format(r.app_name) \o Format(r.root) \o "_deployed", now)
         IN  req' = [req EXCEPT ![i] =
                IF ~reachable
                THEN send_heroku_badge([r EXCEPT !.got = "ConnectionError"],
                                       PyStr("heroku-failed"), r.style, r.file_extension)
                ELSE IF ~IsNone(result)
                THEN send_heroku_badge([r EXCEPT !.got = "hit", !.result = result],
                                       Decode(result), r.style, r.file_extension)
                ELSE [r EXCEPT !.got = "miss", !.pc = "fetch"]]
    /\ UNCHANGED <<env, store, now>>

\* lines 130-139: r.get(f'{app_name}_deployed')
AppDeployedGet(i) ==
    /\ req[i].pc = "get" /\ req[i].route = "app"
    /\ \E reachable \in BOOLEAN :
         LET r == [req[i] EXCEPT !.gets = @ + 1]
             result == redis_get(Format(r.app_name) \o "_deployed", now)
         IN  req' = [req EXCEPT ![i] =
                IF ~reachable
                THEN send_heroku_badge([r EXCEPT !.got = "ConnectionError"],
                                       PyStr("heroku-failed"), r.style, r.file_extension)
                ELSE IF ~IsNone(result)
                THEN send_heroku_badge([r EXCEPT !.got = "hit", !.result = result],
                                       Decode(result), r.style, r.file_extension)
                ELSE [r EXCEPT !.got = "miss", !.pc = "fetch"]]
    /\ UNCHANGED <<env, store, now>>

\* lines 142-143: check_if_app_is_deployed(url); its result is not checked
AppDeployedFetch(i) ==
    /\ req[i].pc = "fetch" /\ req[i].route = "app"
    /\ \E result \in DeployResults :
         LET url == "https://" \o Format(req[i].app_name) \o ".herokuapp.com/"
                               \o Format(req[i].root)
         IN  req' = [req EXCEPT ![i] =
                [req[i] EXCEPT !.fetches = @ + 1, !.fetched = result, !.result = result,
                               !.url = url, !.pc = "set"]]
    /\ UNCHANGED <<env, store, now>>

\* lines 149-161: the timeout, r.set(f'{app_name}_deployed', result,
\* ex=cache_timeout) and the badge
AppDeployedSet(i) ==
    /\ req[i].pc = "set" /\ req[i].route = "app"
    /\ IF ~cache_timeout.ok
       THEN /\ req' = [req EXCEPT ![i] = raise(req[i], "ValueError")]
            /\ store' = store
       ELSE \E o \in SetOutcomes(req[i].result, cache_timeout.val) :
              LET r == [req[i] EXCEPT !.sets = @ + 1, !.ttl = cache_timeout.val]
              IN  IF o.exc # ""
                  THEN /\ req' = [req EXCEPT ![i] = raise(r, o.exc)]
                       /\ store' = store
                  ELSE /\ req' = [req EXCEPT ![i] =
                                    send_heroku_badge(r, r.result, r.style, r.file_extension)]
                       /\ store' = Put(Format(r.app_name) \o "_deployed", o.val, o.exp)
    /\ UNCHANGED <<env, now>>

-----------------------------------------------------------------------------
(* Time: a second passes, and the store drops the entries that expire *)

Tick ==
    /\ now < MaxTime
    /\ now' = now + 1
    /\ store' = [k \in {x \in DOMAIN store : Live(store[x], now + 1)} |-> store[k]]
    /\ UNCHANGED <<env, req>>

-----------------------------------------------------------------------------

Init ==
    /\ env \in Environments
    /\ store = [k \in {} |-> None]
    /\ now = 0
    /\ req = [i \in Reqs |-> IdleReq]

Next ==
    \/ \E i \in Reqs : LastTestStart(i)
    \/ \E i \in Reqs : LastTestGet(i)
    \/ \E i \in Reqs : LastTestFetch(i)
    \/ \E i \in Reqs : LastTestSet(i)
    \/ \E i \in Reqs : AppDeployedStart(i)
    \/ \E i \in Reqs : AppDeployedGet(i)
    \/ \E i \in Reqs : AppDeployedFetch(i)
    \/ \E i \in Reqs : AppDeployedSet(i)
    \/ Tick

Spec == Init /\ [][Next]_vars

-----------------------------------------------------------------------------
(* The claims.  The token sets below are the ones the specification names,  *)
(* written out here so that the properties do not read them from the code.  *)

ValidBuildTokens == {"succeeded", "failed", "errored"}
ValidDeployTokens == {"heroku-succeeded", "heroku-failed"}
ValidTokens(r) == IF r.route = "last" THEN ValidBuildTokens ELSE ValidDeployTokens
DegradedBadge(r) == IF r.route = "last" THEN "error" ELSE "heroku-failed"

\* the asset a request is answered with when it is answered with token
AssetFor(r, token) == IF r.route = "last" THEN token \o ".svg"
                      ELSE token \o Format(r.style) \o "." \o r.file_extension

\* the request was answered with the badge of token
Answered(r, token) == /\ r.pc = "done"
                      /\ r.badge = PyStr(token)
                      /\ r.file = AssetFor(r, token)

\* a string of ASCII digits, and the number it writes
ValidIntString(v) == /\ v.type = "str" /\ Len(v.val) > 0
                     /\ \A k \in 1..Len(v.val) : v.val[k] \in {"0", "1", "2", "3", "4", "5", "6", "7", "8", "9"}

\* C1: every value held in the store is a valid token of its resource type:
\* build_result holds succeeded, failed or errored, and every <app>_deployed
\* key holds a valid deploy token.
C1_CachedValuesAreValidTokens ==
    \A k \in DOMAIN store :
        IF k = "build_result" THEN store[k].val.val \in ValidBuildTokens
        ELSE store[k].val.val \in ValidDeployTokens

\* C2: a request whose cache get finds a valid token T is answered with the
\* badge for T and calls the upstream zero times.
C2_HitServesCachedTokenWithoutFetch ==
    \A i \in Reqs :
        (req[i].got = "hit" /\ req[i].result.val \in ValidTokens(req[i]))
            => (Answered(req[i], req[i].result.val) /\ req[i].fetches = 0)

\* C2 witness: a request of each kind can hit; here an /appdeployed request
\* has been answered from the cache with a valid deploy token.
C2_Witness ==
    \E i \in Reqs : /\ req[i].got = "hit" /\ req[i].route = "app"
                    /\ req[i].result = PyBytes("heroku-succeeded")
                    /\ req[i].pc = "done"

\* C3: a request that misses and fetches a valid token T is answered with the
\* badge for T, and when it completes the store holds T under its key, with
\* the TTL CACHE_TIMEOUT writes when that is a valid integer string and with
\* 900 when CACHE_TIMEOUT is unset.
C3_MissFetchValidCachesWithTTL ==
    [][\A i \in Reqs :
        (/\ req[i].pc = "set" /\ Done(req'[i])
         /\ req[i].fetched.val \in ValidTokens(req[i])
         /\ (IsNone(env.CACHE_TIMEOUT) \/ ValidIntString(env.CACHE_TIMEOUT)))
        => LET T == req[i].fetched.val
               ttl == IF IsNone(env.CACHE_TIMEOUT) THEN 900
                      ELSE DecimalValue(env.CACHE_TIMEOUT.val)
           IN  /\ Answered(req'[i], T)
               /\ req[i].key \in DOMAIN store'
               /\ store'[req[i].key] = [val |-> PyBytes(T), exp |-> now + ttl, at |-> now]]_vars

\* C4: a /last.svg request that misses and whose fetch returns None or a
\* value outside {succeeded, failed, errored} is answered with the error
\* badge, and its step leaves the store as it was: it issues no set.
C4_LastTestBadFetchNotCached ==
    [][\A i \in Reqs :
        (/\ req[i].route = "last" /\ req[i].pc = "fetch" /\ req'[i].pc # "fetch"
         /\ (IsNone(req'[i].fetched) \/ req'[i].fetched.val \notin ValidBuildTokens))
        => (/\ Answered(req'[i], "error")
            /\ req'[i].sets = 0
            /\ store' = store)]_vars

\* C4 witness: a /last.svg request has fetched a status outside the
\* enumeration and has been answered.
C4_Witness ==
    \E i \in Reqs : /\ req[i].route = "last" /\ req[i].got = "miss"
                    /\ req[i].fetched = PyStr("pending") /\ Done(req[i])

\* C5: an /appdeployed request that misses and whose fetch returns no result
\* or a value that is not a valid deploy token is answered with the
\* heroku-failed badge, and its step leaves the store as it was: it issues no
\* set.
C5_AppDeployedBadFetchNotCached ==
    [][\A i \in Reqs :
        (/\ req[i].route = "app" /\ req[i].pc = "fetch" /\ req'[i].pc # "fetch"
         /\ (IsNone(req'[i].fetched) \/ req'[i].fetched.val \notin ValidDeployTokens))
        => (/\ Answered(req'[i], "heroku-failed")
            /\ req'[i].sets = 0
            /\ store' = store)]_vars

\* C6: a request whose cache get fails because the store is unreachable is
\* answered with its degraded badge, and neither calls the upstream nor
\* attempts a set.
C6_CacheErrorFailsFast ==
    \A i \in Reqs :
        req[i].got = "ConnectionError"
            => (/\ Answered(req[i], DegradedBadge(req[i]))
                /\ req[i].gets = 1 /\ req[i].fetches = 0 /\ req[i].sets = 0)

\* C6 witness: a /last.svg request and an /appdeployed request have both
\* found the store unreachable.
C6_Witness ==
    \E i, j \in Reqs : /\ req[i].route = "last" /\ req[i].got = "ConnectionError"
                       /\ req[j].route = "app" /\ req[j].got = "ConnectionError"

\* C7: with CACHE_TIMEOUT set to a string that is not a valid non-negative
\* integer, a request that misses and fetches a valid token completes with
\* the badge for that token and writes the entry with TTL 900.
C7_MalformedTimeoutFallsBack ==
    [][\A i \in Reqs :
        (/\ req[i].pc = "set" /\ req'[i].pc # "set"
         /\ req[i].fetched.val \in ValidTokens(req[i])
         /\ ~IsNone(env.CACHE_TIMEOUT) /\ ~ValidIntString(env.CACHE_TIMEOUT))
        => (/\ Answered(req'[i], req[i].fetched.val)
            /\ req[i].key \in DOMAIN store'
            /\ store'[req[i].key] = [val |-> PyBytes(req[i].fetched.val), exp |-> now + 900, at |-> now])]_vars

\* C8: two /last.svg requests issued one after the other within the TTL
\* window, with the full configuration and a reachable store that starts
\* empty, get the identical badge, and one upstream fetch is made in total,
\* whatever the upstream returned to the first: when the second request does
\* its cache get after the first was answered, it is answered with the first
\* one's badge and is not sent on to the upstream.
C8_TwoRequestsOneFetch ==
    [][\A i, j \in Reqs :
        (/\ i # j /\ req[i].route = "last" /\ req[j].route = "last"
         /\ req[i].pc = "done" /\ req[i].got = "miss"
         /\ \A k \in Reqs \ {i} : req[k].route = "last" => req[k].gets = 0
         /\ cache_timeout.ok /\ cache_timeout.val > MaxTime
         /\ req[j].pc = "get" /\ req'[j].pc # "get"
         /\ req'[j].got # "ConnectionError")
        => (/\ req'[j].pc = "done"
            /\ req'[j].badge = req[i].badge /\ req'[j].file = req[i].file
            /\ req[i].fetches + req'[j].fetches = 1)]_vars

\* C8 as amended: when the first request fetched a valid token, cached it and
\* was answered with its badge, a second /last.svg request whose cache get
\* comes after that and before the entry expires is answered with the same
\* badge without a fetch: one upstream fetch in total.
C8_SecondRequestServedFromCache ==
    [][\A i, j \in Reqs :
        (/\ i # j /\ req[i].route = "last" /\ req[j].route = "last"
         /\ req[i].pc = "done" /\ req[i].got = "miss" /\ req[i].sets = 1
         /\ \A k \in Reqs \ {i} : req[k].route = "last" => req[k].sets = 0
         /\ "build_result" \in DOMAIN store
         /\ req[j].pc = "get" /\ req'[j].pc # "get"
         /\ req'[j].got # "ConnectionError")
        => (/\ req'[j].pc = "done"
            /\ req[i].badge.val \in ValidBuildTokens
            /\ req'[j].badge = req[i].badge /\ req'[j].file = req[i].file
            /\ req[i].fetches + req'[j].fetches = 1)]_vars

\* C8 witness: the second /last.svg request has been answered from the entry
\* the first one cached.
C8_Witness ==
    \E i, j \in Reqs : /\ i # j /\ req[i].route = "last" /\ req[j].route = "last"
                       /\ req[i].got = "miss" /\ req[i].sets = 1 /\ req[i].pc = "done"
                       /\ req[j].got = "hit" /\ req[j].pc = "done"
                       /\ req[j].badge = req[i].badge

\* C9: the token /last.svg hands to send_badge_file is one of succeeded,
\* failed, errored and error, on the cache-hit path too, so the assertion of
\* send_badge_file never fails.
C9_LastTestBadgeInFilesEnum ==
    \A i \in Reqs :
        req[i].route = "last"
            => (/\ req[i].exc # "AssertionError"
                /\ (req[i].pc = "done"
                      => /\ req[i].badge.type = "str"
                         /\ req[i].badge.val \in ValidBuildTokens \cup {"error"}))

\* C9 witness: a /last.svg request has been answered on the cache-hit path.
C9_Witness ==
    \E i \in Reqs : /\ req[i].route = "last" /\ req[i].got = "hit"
                    /\ req[i].pc = "done" /\ req[i].file = "failed.svg"

\* C10: a request with a mandatory input missing is answered at once with its
\* degraded badge, without a cache get, an upstream fetch or a cache set.
MissingInput(r) ==
    \/ IsNone(env.REDIS_URL)
    \/ r.route = "last" /\ (IsNone(env.HEROKU_AUTH_TOKEN) \/ IsNone(env.PIPELINE_ID))
    \/ r.route = "app" /\ IsNone(r.app_name)
C10_MissingInputEndsRequest ==
    \A i \in Reqs :
        (req[i].route # "none" /\ MissingInput(req[i]))
            => (/\ Answered(req[i], DegradedBadge(req[i]))
                /\ req[i].gets = 0 /\ req[i].fetches = 0 /\ req[i].sets = 0)

\* C10 witness: with PIPELINE_ID alone missing, a /last.svg request has been
\* answered, and so has an /appdeployed request without the app parameter.
C10_Witness ==
    /\ IsNone(env.PIPELINE_ID) /\ ~IsNone(env.REDIS_URL)
    /\ \E i, j \in Reqs : /\ req[i].route = "last" /\ req[i].pc = "done"
                          /\ req[j].route = "app" /\ IsNone(req[j].app_name)
                          /\ req[j].pc = "done"

\* C11: the cache write is best-effort: a request that missed, fetched a valid
\* token T and whose r.set raised is still answered with the badge for T.
C11_SetFailureStillAnswers ==
    \A i \in Reqs :
        (/\ req[i].got = "miss" /\ req[i].sets = 1
         /\ req[i].fetched.val \in ValidTokens(req[i])
         /\ req[i].exc \in {"ConnectionError", "ResponseError"})
        => Answered(req[i], req[i].fetched.val)

\* C12: no request ends in an exception or a failed assertion that leaves the
\* handler: every request that ends has been answered with a badge.
C12_NoRequestEndsInException ==
    \A i \in Reqs : /\ req[i].pc # "crashed"
                    /\ (Done(req[i]) => ~IsNone(req[i].badge) /\ req[i].file # "")

\* the key a request works on: build_result for /last.svg, <app>_deployed
\* for /appdeployed
KeyOf(r) == IF r.route = "last" THEN "build_result" ELSE r.app_name.val \o "_deployed"

\* C13: two requests for the same key can both miss and both fetch and set;
\* when the second of the two sets has run, while the entry of the first is
\* still in the store, the store holds under the key the value that second
\* set wrote, and that value is a valid token.
C13_LastWriterWinsWithValidToken ==
    [][\A i, j \in Reqs :
        (/\ i # j /\ req[i].route # "none" /\ req[i].route = req[j].route
         /\ KeyOf(req[i]) = KeyOf(req[j])
         /\ req[i].got = "miss" /\ req[j].got = "miss"
         /\ req[j].pc = "done" /\ req[j].sets = 1
         /\ KeyOf(req[j]) \in DOMAIN store
         /\ req[i].pc = "set" /\ req'[i].pc = "done")
        => (/\ KeyOf(req[i]) \in DOMAIN store'
            /\ store'[KeyOf(req[i])].val = PyBytes(req[i].fetched.val)
            /\ req[i].fetched.val \in ValidTokens(req[i]))]_vars

\* two requests for the same key have both missed, fetched and set, and the
\* entry is in the store
C13_BothMissedAndSet ==
    \E i, j \in Reqs : /\ i # j /\ req[i].route = "last" /\ req[j].route = "last"
                       /\ req[i].got = "miss" /\ req[j].got = "miss"
                       /\ req[i].fetches = 1 /\ req[j].fetches = 1
                       /\ req[i].pc = "done" /\ req[j].pc = "done"
                       /\ req[i].sets = 1 /\ req[j].sets = 1
                       /\ req[i].fetched # req[j].fetched
                       /\ "build_result" \in DOMAIN store

\* C14: the asset an /appdeployed request is answered with has the extension
\* the svg parameter asks for, on every response path: svg for a request
\* with svg=1, png for any other.
C14_ExtensionFollowsSvgParam ==
    \A i \in Reqs :
        (req[i].route = "app" /\ req[i].pc = "done")
            => LET ext == IF PyEq(req[i].svg, PyStr("1")) THEN "svg" ELSE "png"
               IN  req[i].file = req[i].badge.val \o req[i].style.val \o "." \o ext

\* C15: every cache entry the handlers write carries a positive integer TTL,
\* whatever CACHE_TIMEOUT holds ('0' included): no set is issued with a TTL
\* of 0 and no entry is stored without an expiry.
C15_EveryEntryHasPositiveTTL ==
    /\ \A i \in Reqs : req[i].sets > 0 => req[i].ttl > 0
    /\ \A k \in DOMAIN store : store[k].exp # NoExpiry

\* C16: a request issues at most one cache get, at most one upstream fetch
\* and at most one cache set; it fetches only after its get came back absent
\* without an error, and it issues a set only after its fetch returned, so
\* never on a hit and never after a cache error.
C16_AtMostOneGetFetchSet ==
    \A i \in Reqs :
        /\ req[i].gets <= 1 /\ req[i].fetches <= 1 /\ req[i].sets <= 1
        /\ req[i].fetches = 1 => (req[i].gets = 1 /\ req[i].got = "miss")
        /\ req[i].sets = 1 => req[i].fetches = 1
        /\ req[i].got \in {"hit", "ConnectionError"} => (req[i].fetches = 0 /\ req[i].sets = 0)

C16_Witness ==
    \E i, j \in Reqs :
        /\ req[i].route = "app" /\ req[i].pc = "done"
        /\ req[i].gets = 1 /\ req[i].fetches = 1 /\ req[i].sets = 1
        /\ req[j].route = "app" /\ req[j].pc = "done" /\ req[j].got = "hit"

\* C17: a request touches one key only, build_result for /last.svg and
\* <app>_deployed for /appdeployed: a step of a request leaves every other
\* key of the store as it was, what its get returns on a hit is the entry of
\* its own key, and a hit leaves the whole store unchanged, each entry's
\* expiry time (so its remaining TTL) included.
C17_RequestTouchesOnlyItsKey ==
    [][\A i \in Reqs :
        req'[i] # req[i] =>
            /\ now' = now
            /\ \A k \in (DOMAIN store \cup DOMAIN store') \ {KeyOf(req'[i])} :
                  k \in DOMAIN store /\ k \in DOMAIN store' /\ store'[k] = store[k]
            /\ (req'[i].got = "hit" /\ req[i].got # "hit") =>
                  /\ store' = store
                  /\ KeyOf(req'[i]) \in DOMAIN store
                  /\ req'[i].result = store[KeyOf(req'[i])].val]_vars

C17_Witness ==
    \E i, j \in Reqs :
        /\ req[i].route = "last" /\ req[i].pc = "done" /\ req[i].sets = 1
        /\ req[j].route = "app" /\ req[j].pc = "done" /\ req[j].sets = 1
        /\ "build_result" \in DOMAIN store
        /\ KeyOf(req[j]) \in DOMAIN store
        /\ KeyOf(req[j]) # "build_result"

\* C19: the /appdeployed entry is keyed by the app name alone. Once a request
\* for app A with root r1 has cached its token, a later request for A with
\* another root r2 whose get reaches the cache while the entry is live is
\* answered with that same token, and makes no upstream fetch for r2 (it
\* builds no url and its fetch count stays 0).
C19_RootIsNotPartOfTheKey ==
    [][\A i, j \in Reqs :
        (/\ i # j
         /\ req[i].route = "app" /\ req[i].pc = "done" /\ req[i].sets = 1 /\ req[i].exc = ""
         /\ req[j].route = "app" /\ req[j].pc = "get"
         /\ PyEq(req[j].app_name, req[i].app_name)
         /\ ~PyEq(req[j].root, req[i].root)
         /\ KeyOf(req[i]) \in DOMAIN store
         /\ Live(store[KeyOf(req[i])], now)
         /\ store[KeyOf(req[i])].val = PyBytes(Format(req[i].fetched))
         /\ req'[j] # req[j]
         /\ req'[j].got # "ConnectionError")
        => (/\ req'[j].pc = "done"
            /\ req'[j].got = "hit"
            /\ req'[j].badge = req[i].badge
            /\ req'[j].fetches = 0
            /\ req'[j].url = "")]_vars

C19_Witness ==
    \E i, j \in Reqs :
        /\ i # j
        /\ req[i].route = "app" /\ req[i].pc = "done" /\ req[i].sets = 1 /\ req[i].url # ""
        /\ req[j].route = "app" /\ req[j].pc = "done" /\ req[j].got = "hit"
        /\ PyEq(req[j].app_name, req[i].app_name)
        /\ ~PyEq(req[j].root, req[i].root)
        /\ req[j].badge = req[i].badge
        /\ req[j].fetches = 0

\* C18: a token served from the cache is never staler than the TTL: the
\* badge a hit serves at time t reflects an upstream fetch made no earlier
\* than t - TTL. An entry is written no earlier than its token was fetched,
\* so the entry a hit reads at t was written no earlier than t - TTL.
C18_HitNoStalerThanTTL ==
    [][\A j \in Reqs :
        (/\ req[j].pc = "get"
         /\ req'[j].got = "hit"
         /\ cache_timeout.ok)
        => (/\ KeyOf(req[j]) \in DOMAIN store
            /\ store[KeyOf(req[j])].at >= now - cache_timeout.val)]_vars

\* the part of C18 the handlers do keep: an entry written with a TTL above 0
\* is read by no hit once that many seconds have passed since its SET
C18_PositiveTTLBoundsAge ==
    [][\A j \in Reqs :
        (/\ req[j].pc = "get"
         /\ req'[j].got = "hit"
         /\ cache_timeout.ok /\ cache_timeout.val > 0)
        => (/\ KeyOf(req[j]) \in DOMAIN store
            /\ now < store[KeyOf(req[j])].at + cache_timeout.val)]_vars

====
